---------------------------- MODULE Spec2Model ----------------------------
(***************************************************************************)
(* State-machine model of the MusicPlayer component                        *)
(* (src/src/components/MusicPlayer.tsx): the debounced play/pause toggle,  *)
(* the requestAnimationFrame loop that advances the artwork rotation and   *)
(* the progress, the 250 ms label sampler and the unmount cleanups.        *)
(*                                                                         *)
(* Granularity.  The browser runs every callback (click handler, timer     *)
(* callback, animation frame, interval callback) to completion on one      *)
(* thread; one action is one callback together with the React commit it    *)
(* causes (re-render, effect cleanups, effect bodies).  playerState is     *)
(* therefore the committed state, which is also what the closures of the   *)
(* handlers (isLoading, isPlaying) hold.                                   *)
(*                                                                         *)
(* Numbers.  The motion values are JavaScript numbers; they are modelled   *)
(* as exact rationals with a fixed denominator:                            *)
(*   progress        = progress / ProgressDen            (a fraction)      *)
(*   artworkRotation = artworkRotation / RotationDen     (degrees)         *)
(*   currentSeconds  = currentSeconds / SecondsDen       (seconds)         *)
(* Times (now, deadlines, lastFrameRef) are whole milliseconds.            *)
(***************************************************************************)
EXTENDS Integers, Sequences, FiniteSets, TLC

\* ------------------------------------------------------------------ bounds
\* Toggle requests (clicks) issued in one behaviour.
MaxToggles == 3
\* Passages of time in one behaviour.
MaxAdvances == 4
\* Toggle requests and passages of time in one behaviour with pointer input.
VolMaxToggles == 2
VolMaxAdvances == 2
\* Toggle requests and passages of time (other than the wait for a pending
\* timeout) in one behaviour of the specification with fairness.
LiveMaxToggles == 2
LiveMaxAdvances == 2
\* Toggle requests, and passages of time and frames together, in one
\* behaviour of the specification of tick on arbitrary timestamps.
FrameMaxToggles == 2
FrameMaxAdvances == 4
\* The amounts of time, in ms, that may pass between two callbacks: a sample
\* interval, the toggle delay, and a stall (a hidden tab) long enough for the
\* rotation to wrap and for the progress to wrap from its initial value.
Steps == {250, 500, 150000}
\* Timestamps of frame callbacks (ms): in any order, so that one may be
\* earlier than the one before it, and far enough apart for both values to
\* wrap.
FrameTimes == {0, 250, 500, 150000}

\* --------------------------------------------------------------- constants
TOGGLE_DELAY_MS == 500
PROGRESS_DURATION_MS == 225000
SAMPLE_INTERVAL_MS == 250
ROTATION_PERIOD_MS == 20000
FULL_TURN_DEG == 360
\* progress is kept in units of 1/ProgressDen: the least denominator in which
\* both the initial value 0.3688889 and one millisecond (1/225000) are whole.
ProgressDen == 90000000
InitialProgress == 33200001
\* artworkRotation is kept in units of 1/RotationDen degree: one millisecond
\* turns the artwork by 360/20000 = 9/500 degree.
RotationDen == 500
\* totalSeconds = PROGRESS_DURATION_MS / 1000
TotalSeconds == PROGRESS_DURATION_MS \div 1000
\* currentSeconds is kept in units of 1/SecondsDen second (half a
\* microsecond): (p / ProgressDen) * 225 s = p * 5 / SecondsDen s.
SecondsDen == 2000000

\* volume is kept in units of 1/VolumeDen: 0.65 = 130/200.
VolumeDen == 200
InitialVolume == 130

\* lastFrameRef.current: <<>> is null, <<t>> the timestamp t.
Null == << >>

VARIABLES
    playerState,       \* "paused" | "playing" | "loading"
    toggleTimeoutRef,  \* id of the last timeout set; 0 is null
    isMountedRef,      \* isMountedRef.current
    artworkRotation,   \* motion value, units of 1/RotationDen degree
    progress,          \* motion value, units of 1/ProgressDen
    lastFrameRef,      \* Null or <<timestamp of the last tick>>
    currentSeconds,    \* state shown by the label, units of 1/SecondsDen s
    timers,            \* pending window.setTimeout callbacks
    nextTimerId,       \* the id the next setTimeout returns
    rafPending,        \* a requestAnimationFrame callback is pending
    rafQueue,          \* the number of frame callbacks the browser holds
    intervalActive,    \* the setInterval sampler is scheduled
    sampleDue,         \* the time the sampler is next due
    now,               \* the clock, ms since mount
    volume,            \* state shown by the volume slider, a JsNumber
    timeArg,           \* the argument of the last formatTime call
    label,             \* the elapsed-time label, the result of that call
    \* history variables (observers; no action's guard or effect reads them)
    step,              \* the last action taken
    toggleCount,       \* toggle requests issued so far
    advances,          \* passages of time so far
    burstFirst,        \* first toggle request since the last settled state
    burstLast,         \* latest toggle request since the last settled state
    burstFrom,         \* playerState that burstFirst found
    burstAt,           \* the time burstFirst was issued
    fired,             \* what the last delayed transition to fire was
    sinceTick,         \* clock time since the last tick of this Playing run
    runTicked,         \* a tick has run in the current Playing run
    tickedMs,          \* total clock time between ticks of a same run
    lastElapsed,       \* clock time the last tick had since its predecessor
    progressBefore,    \* progress before the last tick
    rotationBefore,    \* artworkRotation before the last tick
    frameTime,         \* the timestamp the last tick was called with
    tornDown,          \* the transition pending at teardown, if any
    pointer,           \* the last pointer event on the volume track
    sampled            \* when the label was last set, the progress then, and
                       \* since when the progress has differed from it (-1:
                       \* it has not)

model == <<playerState, toggleTimeoutRef, isMountedRef, artworkRotation,
           progress, lastFrameRef, currentSeconds, timers, nextTimerId,
           rafPending, rafQueue, intervalActive, sampleDue, now, volume,
           timeArg, label>>
history == <<step, toggleCount, advances, burstFirst, burstLast, burstFrom,
             burstAt, fired, sinceTick, runTicked, tickedMs, lastElapsed,
             progressBefore, rotationBefore, frameTime, tornDown, pointer,
             sampled>>
vars == <<model, history>>

NoFire == [owner |-> 0, first |-> 0, last |-> 0, from |-> "none",
           to |-> "none", at |-> 0, others |-> 0]
NoTearDown == [target |-> "none", deadline |-> 0]
NoPointer == [kind |-> "none", x |-> 0, y |-> 0, buttons |-> 0,
              left |-> 0, width |-> 0]

\* The pointer events the volume track may receive: clientX left of the
\* track, on its left edge, inside it, on its right edge and right of it;
\* two clientY; no button, the primary button, the secondary button; and the
\* track's bounding box, which a narrow layout may shrink to width 0.
ClientXs == {50, 100, 200, 300, 400}
ClientYs == {0, 10}
Buttons == {0, 1, 2}
TrackRects == {[left |-> 100, width |-> 200], [left |-> 100, width |-> 0]}
\* The pointer events interleaved with the player's callbacks: inside the
\* track and right of it, on a track of positive width.
SomeClientXs == {200, 400}
SomeButtons == {0, 1}
SomeTrackRects == {[left |-> 100, width |-> 200]}

\* ------------------------------------------------------------ pure helpers
Max(a, b) == IF a >= b THEN a ELSE b

\* window.clearTimeout(id): the timer with that id is no longer pending.
ClearTimeout(ts, id) == {t \in ts : t.id # id}

\* if (isLoading) return;
IgnoresToggle_Never(isLoading) == FALSE
IgnoresToggle(isLoading) == isLoading

\* const nextState = isPlaying ? "paused" : "playing";
NextState_Inverted(isPlaying) == IF isPlaying THEN "playing" ELSE "paused"
NextState(isPlaying) == IF isPlaying THEN "paused" ELSE "playing"

\* A JavaScript number as the volume computation meets it: a finite value n
\* (in units of 1/VolumeDen), NaN, Infinity or -Infinity.
Num(n) == [kind |-> "num", n |-> n]
NaN == [kind |-> "nan", n |-> 0]
PosInf == [kind |-> "inf", n |-> 0]
NegInf == [kind |-> "ninf", n |-> 0]

\* a / b for whole a and b >= 0 (a width is never negative): IEEE division,
\* 0/0 is NaN and a/0 is an infinity of a's sign.  The quotient is exact for
\* the widths of TrackRects, which divide VolumeDen.
Divide(a, b) ==
    IF b # 0 THEN Num((a * VolumeDen) \div b)
    ELSE IF a = 0 THEN NaN
    ELSE IF a > 0 THEN PosInf ELSE NegInf

\* Math.max(0, value): NaN if value is NaN.
MathMax0(v) ==
    CASE v.kind = "nan" -> NaN
      [] v.kind = "inf" -> PosInf
      [] v.kind = "ninf" -> Num(0)
      [] OTHER -> Num(Max(0, v.n))

\* Math.min(1, value): NaN if value is NaN.
MathMin1(v) ==
    CASE v.kind = "nan" -> NaN
      [] v.kind = "inf" -> Num(VolumeDen)
      [] v.kind = "ninf" -> NegInf
      [] OTHER -> Num(IF v.n <= VolumeDen THEN v.n ELSE VolumeDen)

\* function clamp01(value) { return Math.min(1, Math.max(0, value)); }
clamp01_UpperOnly(v) == MathMin1(v)
clamp01(v) == MathMin1(MathMax0(v))

\* const next = clamp01((clientX - rect.left) / rect.width);
VolumeFromClientX(clientX, clientY, rect) ==
    clamp01(Divide(clientX - rect.left, rect.width))

\* if ((e.buttons & 1) !== 1) return;
PrimaryHeld_Always(buttons) == TRUE
PrimaryHeld(buttons) == buttons % 2 = 1

\* Math.floor(x) for x in units of 1/SecondsDen second.
Floor(x) == x \div SecondsDen

\* String(seconds).padStart(2, "0")
PadStart2_None(str) == str
PadStart2(str) == IF Len(str) < 2 THEN "0" \o str ELSE str

\* function formatTime(totalSeconds), totalSeconds in units of 1/SecondsDen.
formatTime(totalSeconds) ==
    LET clamped == Max(0, Floor(totalSeconds))
        minutes == clamped \div 60
        seconds == clamped % 60
    IN  ToString(minutes) \o ":" \o PadStart2(ToString(seconds))

\* The arguments formatTime is applied to on its own: the whole seconds from
\* -5 to 230 and the same plus 0.9 s.
FormatInputs ==
    {sec * SecondsDen + frac * (SecondsDen \div 10) :
        sec \in -5 .. 230, frac \in {0, 9}}

\* setPlayerState("loading"), whatever nextState is.
StateOnToggle_Direct(nextState) == nextState
StateOnToggle(nextState) == "loading"

\* window.setTimeout runs its callback once: a timeout that has fired is no
\* longer pending.
TimersAfterFire_Repeating(pending, t) == pending
TimersAfterFire(pending, t) == pending \ {t}

\* React.useState<PlayerState>("paused")
InitialPlayerState_Playing == "playing"
InitialPlayerState == "paused"

\* if (!isMountedRef.current) return;  (in the timeout's callback)
CommitsTransition_Inverted(isMounted) == ~isMounted
CommitsTransition(isMounted) == isMounted

\* const last = lastFrameRef.current ?? now;
\* const deltaMs = Math.max(0, now - last);
DeltaMs_Signed(last, t) == t - (IF last = Null THEN t ELSE last[1])
DeltaMs(last, t) == Max(0, t - (IF last = Null THEN t ELSE last[1]))

\* artworkRotation.set((artworkRotation.get() + deltaMs * 360 / 20000) % 360)
NextRotation_ProgressPeriod(rot, deltaMs) ==
    (rot + (deltaMs * (FULL_TURN_DEG * RotationDen)) \div PROGRESS_DURATION_MS)
        % (FULL_TURN_DEG * RotationDen)
NextRotation(rot, deltaMs) ==
    (rot + deltaMs * ((FULL_TURN_DEG * RotationDen) \div ROTATION_PERIOD_MS))
        % (FULL_TURN_DEG * RotationDen)

\* progress.set((progress.get() + deltaMs / PROGRESS_DURATION_MS) % 1)
NextProgress_NoWrap(p, deltaMs) ==
    p + deltaMs * (ProgressDen \div PROGRESS_DURATION_MS)
NextProgress_RotationPeriod(p, deltaMs) ==
    (p + deltaMs * (ProgressDen \div ROTATION_PERIOD_MS)) % ProgressDen
NextProgress(p, deltaMs) ==
    (p + deltaMs * (ProgressDen \div PROGRESS_DURATION_MS)) % ProgressDen

\* window.setInterval(callback, 250) at time t: the callback is next due at
\* t + 250.
NextSampleDue_Twice(t) == t + 2 * SAMPLE_INTERVAL_MS
NextSampleDue(t) == t + SAMPLE_INTERVAL_MS

\* progress.get() * totalSeconds, in units of 1/SecondsDen second.
ProgressSeconds_NoScale(p) == p \div (ProgressDen \div SecondsDen)
ProgressSeconds(p) == p * ((TotalSeconds * SecondsDen) \div ProgressDen)

\* The animation effect, deps [artworkRotation, isPlaying, progress]: it runs
\* when isPlaying changes.  Its cleanup cancels the pending frame; its body
\* requests a frame when playing and otherwise clears lastFrameRef.
EffectRaf_NoCancel(wasPlaying, isPlaying, raf) == raf \/ isPlaying
EffectRaf(wasPlaying, isPlaying, raf) ==
    IF wasPlaying = isPlaying THEN raf ELSE isPlaying

\* window.requestAnimationFrame(tick) adds one callback to the browser's
\* queue of frame callbacks.
RequestAnimationFrame_Twice(queue) == queue + 2
RequestAnimationFrame(queue) == queue + 1

\* window.cancelAnimationFrame(rafId) removes the callback rafId names, if it
\* is still pending.
CancelAnimationFrame(queue, pending) ==
    IF pending THEN queue - 1 ELSE queue

\* The browser's queue after the animation effect: the cleanup of a playing
\* run cancels rafId, the body of a playing run requests a frame.
EffectRafQueue(queue, wasPending, isPending) ==
    IF wasPending = isPending THEN queue
    ELSE IF isPending THEN RequestAnimationFrame(queue)
    ELSE CancelAnimationFrame(queue, wasPending)

EffectLastFrame_NoReset(wasPlaying, isPlaying, last) == last
EffectLastFrame(wasPlaying, isPlaying, last) ==
    IF wasPlaying = isPlaying THEN last
    ELSE IF ~isPlaying THEN Null ELSE last

\* ------------------------------------------------------------------- Init
Init ==
    /\ playerState = InitialPlayerState
    /\ toggleTimeoutRef = 0
    /\ isMountedRef = TRUE
    /\ artworkRotation = 0
    /\ progress = InitialProgress
    /\ lastFrameRef = Null
    /\ currentSeconds = ProgressSeconds(InitialProgress)
    /\ timers = {}
    /\ nextTimerId = 2
    /\ rafPending = FALSE
    /\ rafQueue = 0
    /\ intervalActive = TRUE
    /\ sampleDue = NextSampleDue(0)
    /\ now = 0
    /\ volume = Num(InitialVolume)
    /\ timeArg = ProgressSeconds(InitialProgress)
    /\ label = formatTime(ProgressSeconds(InitialProgress))
    /\ step = "mount"
    /\ toggleCount = 0
    /\ advances = 0
    /\ burstFirst = 0
    /\ burstLast = 0
    /\ burstFrom = "none"
    /\ burstAt = 0
    /\ fired = NoFire
    /\ sinceTick = 0
    /\ runTicked = FALSE
    /\ tickedMs = 0
    /\ lastElapsed = 0
    /\ progressBefore = InitialProgress
    /\ rotationBefore = 0
    /\ frameTime = 0
    /\ tornDown = NoTearDown
    /\ pointer = NoPointer
    /\ sampled = [at |-> 0, progress |-> InitialProgress, staleSince |-> -1]

\* The callbacks of the player proper never touch the volume.
VolumeUnchanged == UNCHANGED <<volume, pointer>>

\* <span>{formatTime(currentSeconds)}</span> is rendered anew only when
\* currentSeconds is set.
LabelUnchanged == UNCHANGED <<timeArg, label>>

TickHistoryUnchanged ==
    UNCHANGED <<tickedMs, lastElapsed, progressBefore, rotationBefore,
                frameTime>>

\* ---------------------------------------------------------------- actions
\* The body of handleTogglePlayPause past its guard, with the commit of
\* setPlayerState("loading") and the animation effect that commit runs.
ScheduleToggle(cancel) ==
    LET isPlaying == playerState = "playing"
        nextState == NextState(isPlaying)
        kept == IF cancel /\ toggleTimeoutRef # 0
                THEN ClearTimeout(timers, toggleTimeoutRef)
                ELSE timers
    IN  /\ playerState' = StateOnToggle(nextState)
        /\ timers' = kept \cup {[id |-> nextTimerId,
                                 deadline |-> now + TOGGLE_DELAY_MS,
                                 target |-> nextState,
                                 req |-> toggleCount + 1]}
        /\ toggleTimeoutRef' = nextTimerId
        /\ nextTimerId' = nextTimerId + 1
        /\ rafPending' = EffectRaf(isPlaying, FALSE, rafPending)
        /\ rafQueue' = EffectRafQueue(rafQueue, rafPending, rafPending')
        /\ lastFrameRef' = EffectLastFrame(isPlaying, FALSE, lastFrameRef)
        /\ UNCHANGED <<isMountedRef, artworkRotation, progress,
                       currentSeconds, intervalActive, sampleDue, now>>

ToggleHistory ==
    /\ step' = "toggle"
    /\ UNCHANGED sampled
    /\ LabelUnchanged
    /\ VolumeUnchanged
    /\ toggleCount' = toggleCount + 1
    /\ burstFirst' = IF burstFirst = 0 THEN toggleCount + 1 ELSE burstFirst
    /\ burstFrom' = IF burstFirst = 0 THEN playerState ELSE burstFrom
    /\ burstAt' = IF burstFirst = 0 THEN now ELSE burstAt
    /\ burstLast' = toggleCount + 1
    /\ sinceTick' = IF playerState' = "playing" THEN sinceTick ELSE 0
    /\ runTicked' = IF playerState' = "playing" THEN runTicked ELSE FALSE
    /\ TickHistoryUnchanged
    /\ UNCHANGED <<advances, fired, tornDown>>

\* A handler that neither ignores a toggle while loading nor cancels the
\* pending timeout: every click schedules one more transition.
handleTogglePlayPause_NoDebounce ==
    /\ isMountedRef
    /\ toggleCount < MaxToggles
    /\ ScheduleToggle(FALSE)
    /\ ToggleHistory

\* onClick={handleTogglePlayPause}: a click on the play/pause button.
handleTogglePlayPause ==
    /\ isMountedRef
    /\ toggleCount < MaxToggles
    /\ IF IgnoresToggle(playerState = "loading")
       THEN UNCHANGED <<playerState, toggleTimeoutRef, isMountedRef,
                        artworkRotation, progress, lastFrameRef,
                        currentSeconds, timers, nextTimerId, rafPending,
                        rafQueue, intervalActive, sampleDue, now>>
       ELSE ScheduleToggle(TRUE)
    /\ ToggleHistory

\* The callback of the timeout set by handleTogglePlayPause, run by the
\* browser once its delay has elapsed, with the commit of
\* setPlayerState(nextState) and the animation effect that commit runs.
ToggleTimeoutFires ==
    \E t \in timers :
        /\ now >= t.deadline
        /\ timers' = TimersAfterFire(timers, t)
        /\ IF ~CommitsTransition(isMountedRef)
           THEN UNCHANGED <<playerState, rafPending, rafQueue, lastFrameRef>>
           ELSE /\ playerState' = t.target
                /\ rafPending' = EffectRaf(playerState = "playing",
                                           t.target = "playing", rafPending)
                /\ rafQueue' = EffectRafQueue(rafQueue, rafPending,
                                              rafPending')
                /\ lastFrameRef' = EffectLastFrame(playerState = "playing",
                                                   t.target = "playing",
                                                   lastFrameRef)
        /\ UNCHANGED <<toggleTimeoutRef, isMountedRef, artworkRotation,
                       progress, currentSeconds, nextTimerId, intervalActive,
                       sampleDue, now>>
        /\ step' = "timeout"
        /\ UNCHANGED sampled
        /\ LabelUnchanged
        /\ VolumeUnchanged
        /\ fired' = [owner |-> t.req, first |-> burstFirst,
                     last |-> burstLast, from |-> burstFrom,
                     to |-> playerState', at |-> burstAt,
                     others |-> Cardinality(timers) - 1]
        /\ burstFirst' = 0
        /\ burstLast' = 0
        /\ burstFrom' = "none"
        /\ burstAt' = 0
        /\ sinceTick' = 0
        /\ runTicked' = FALSE
        /\ TickHistoryUnchanged
        /\ UNCHANGED <<toggleCount, advances, tornDown>>

\* tick(now): the requestAnimationFrame callback, called with timestamp ts.
TickAt(ts) ==
    /\ rafQueue > 0
    /\ IF ~isMountedRef
       THEN /\ rafPending' = FALSE
            /\ rafQueue' = rafQueue - 1
            /\ UNCHANGED <<lastFrameRef, artworkRotation, progress>>
       ELSE LET deltaMs == DeltaMs(lastFrameRef, ts)
            IN  /\ lastFrameRef' = <<ts>>
                /\ artworkRotation' = NextRotation(artworkRotation, deltaMs)
                /\ progress' = NextProgress(progress, deltaMs)
                /\ rafPending' = TRUE
                /\ rafQueue' = RequestAnimationFrame(rafQueue - 1)
    /\ UNCHANGED <<playerState, toggleTimeoutRef, isMountedRef,
                   currentSeconds, timers, nextTimerId, intervalActive,
                   sampleDue, now>>
    /\ step' = "tick"
    /\ sampled' = IF sampled.staleSince = -1 /\ progress' # progress
                  THEN [sampled EXCEPT !.staleSince = now]
                  ELSE sampled
    /\ LabelUnchanged
    /\ VolumeUnchanged
    /\ lastElapsed' = IF runTicked THEN sinceTick ELSE 0
    /\ tickedMs' = tickedMs + (IF runTicked THEN sinceTick ELSE 0)
    /\ progressBefore' = progress
    /\ rotationBefore' = artworkRotation
    /\ frameTime' = ts
    /\ sinceTick' = 0
    /\ runTicked' = TRUE
    /\ UNCHANGED <<toggleCount, burstFirst, burstLast, burstFrom, burstAt,
                   fired, tornDown>>

\* The browser runs the frame callback with the time of the frame.
Tick ==
    /\ TickAt(now)
    /\ UNCHANGED advances

\* tick on any timestamp, one earlier than the stored one included.
FrameAt ==
    \E ts \in FrameTimes :
        /\ advances < FrameMaxAdvances
        /\ TickAt(ts)
        /\ advances' = advances + 1

\* The setInterval callback: setCurrentSeconds(progress.get() * totalSeconds).
Sample ==
    /\ intervalActive
    /\ now >= sampleDue
    /\ currentSeconds' = ProgressSeconds(progress)
    /\ timeArg' = currentSeconds'
    /\ label' = formatTime(currentSeconds')
    /\ sampleDue' = NextSampleDue(now)
    /\ UNCHANGED <<playerState, toggleTimeoutRef, isMountedRef,
                   artworkRotation, progress, lastFrameRef, timers,
                   nextTimerId, rafPending, rafQueue, intervalActive, now>>
    /\ step' = "sample"
    /\ sampled' = [at |-> now, progress |-> progress, staleSince |-> -1]
    /\ VolumeUnchanged
    /\ TickHistoryUnchanged
    /\ UNCHANGED <<toggleCount, advances, burstFirst, burstLast, burstFrom,
                   burstAt, fired, sinceTick, runTicked, tornDown>>

UnmountHistory ==
    /\ step' = "unmount"
    /\ UNCHANGED sampled
    /\ LabelUnchanged
    /\ VolumeUnchanged
    /\ tornDown' = IF timers = {} THEN NoTearDown
                   ELSE LET t == CHOOSE x \in timers : TRUE
                        IN  [target |-> t.target, deadline |-> t.deadline]
    /\ TickHistoryUnchanged
    /\ UNCHANGED <<toggleCount, advances, burstFirst, burstLast, burstFrom,
                   burstAt, fired, sinceTick, runTicked>>

\* An unmount whose first effect returns no cleanup: isMountedRef stays true
\* and the pending timeout is not cleared.
Unmount_NoMountCleanup ==
    /\ isMountedRef
    /\ step # "unmount"
    /\ rafPending' = FALSE
    /\ rafQueue' = CancelAnimationFrame(rafQueue, rafPending)
    /\ intervalActive' = FALSE
    /\ UNCHANGED <<playerState, toggleTimeoutRef, isMountedRef,
                   artworkRotation, progress, lastFrameRef, currentSeconds,
                   timers, nextTimerId, sampleDue, now>>
    /\ UnmountHistory

\* An unmount whose sampler effect returns no cleanup: the interval goes on.
Unmount_NoClearInterval ==
    /\ isMountedRef
    /\ isMountedRef' = FALSE
    /\ timers' = IF toggleTimeoutRef # 0
                 THEN ClearTimeout(timers, toggleTimeoutRef) ELSE timers
    /\ rafPending' = FALSE
    /\ rafQueue' = CancelAnimationFrame(rafQueue, rafPending)
    /\ UNCHANGED <<playerState, toggleTimeoutRef, artworkRotation, progress,
                   lastFrameRef, currentSeconds, nextTimerId, intervalActive,
                   sampleDue, now>>
    /\ UnmountHistory

\* Unmount: React runs the cleanup of every effect.
\*   mount effect:     isMountedRef.current = false; clearTimeout(ref) if set
\*   animation effect: cancelAnimationFrame(rafId), when it was playing
\*   sampler effect:   clearInterval(id)
Unmount ==
    /\ isMountedRef
    /\ isMountedRef' = FALSE
    /\ timers' = IF toggleTimeoutRef # 0
                 THEN ClearTimeout(timers, toggleTimeoutRef) ELSE timers
    /\ rafPending' = FALSE
    /\ rafQueue' = CancelAnimationFrame(rafQueue, rafPending)
    /\ intervalActive' = FALSE
    /\ UNCHANGED <<playerState, toggleTimeoutRef, artworkRotation, progress,
                   lastFrameRef, currentSeconds, nextTimerId, sampleDue, now>>
    /\ UnmountHistory

\* Time passes: d ms.
AdvanceBy(d) ==
        /\ now' = now + d
        /\ advances' = advances + 1
        /\ step' = "advance"
        /\ UNCHANGED sampled
        /\ LabelUnchanged
        /\ VolumeUnchanged
        /\ sinceTick' = IF playerState = "playing" /\ isMountedRef /\ runTicked
                        THEN sinceTick + d ELSE sinceTick
        /\ TickHistoryUnchanged
        /\ UNCHANGED <<playerState, toggleTimeoutRef, isMountedRef,
                       artworkRotation, progress, lastFrameRef, currentSeconds,
                       timers, nextTimerId, rafPending, rafQueue,
                       intervalActive, sampleDue>>
        /\ UNCHANGED <<toggleCount, burstFirst, burstLast, burstFrom, burstAt,
                       fired, runTicked, tornDown>>

\* Time passes, within the budget of a behaviour.
Advance ==
    \E d \in Steps :
        /\ advances < MaxAdvances
        /\ AdvanceBy(d)

\* Time never stops while a timeout is waiting for its delay to elapse:
\* beyond the budget, time still passes until the pending timeout is due.
LiveAdvance ==
    \E d \in Steps :
        /\ \/ advances < LiveMaxAdvances
           \/ \E t \in timers : now < t.deadline
        /\ AdvanceBy(d)

PlayerHistoryUnchanged ==
    /\ TickHistoryUnchanged
    /\ UNCHANGED <<toggleCount, advances, burstFirst, burstLast, burstFrom,
                   burstAt, fired, sinceTick, runTicked, tornDown>>

\* What the volume-track pointer handlers leave alone: the player's state.
PlayerUnchanged_Pauses ==
    /\ playerState' = "paused"
    /\ UNCHANGED <<toggleTimeoutRef, isMountedRef, artworkRotation, progress,
                   lastFrameRef, currentSeconds, timers, nextTimerId,
                   rafPending, rafQueue, intervalActive, sampleDue, now>>
PlayerUnchanged ==
    UNCHANGED <<playerState, toggleTimeoutRef, isMountedRef, artworkRotation,
                progress, lastFrameRef, currentSeconds, timers, nextTimerId,
                rafPending, rafQueue, intervalActive, sampleDue, now>>

\* onPointerDown on the volume track: setPointerCapture, then
\* handleSetVolumeFromClientX(e.clientX), which reads the track's bounding
\* box and commits setVolume(next).
PointerDownOn(xs, ys, rects) ==
    \E x \in xs, y \in ys, rect \in rects :
        /\ isMountedRef
        /\ volume' = VolumeFromClientX(x, y, rect)
        /\ pointer' = [kind |-> "down", x |-> x, y |-> y, buttons |-> 1,
                       left |-> rect.left, width |-> rect.width]
        /\ step' = "pointerdown"
        /\ UNCHANGED sampled
        /\ LabelUnchanged
        /\ PlayerUnchanged
        /\ PlayerHistoryUnchanged

\* onPointerMove on the volume track: ignored unless the primary button is
\* held, else handleSetVolumeFromClientX(e.clientX).
PointerMoveOn(xs, ys, bs, rects) ==
    \E x \in xs, y \in ys, b \in bs, rect \in rects :
        /\ isMountedRef
        /\ volume' = IF PrimaryHeld(b) THEN VolumeFromClientX(x, y, rect)
                     ELSE volume
        /\ pointer' = [kind |-> "move", x |-> x, y |-> y, buttons |-> b,
                       left |-> rect.left, width |-> rect.width]
        /\ step' = "pointermove"
        /\ UNCHANGED sampled
        /\ LabelUnchanged
        /\ PlayerUnchanged
        /\ PlayerHistoryUnchanged

\* formatTime applied to an argument of FormatInputs.
Format ==
    \E a \in FormatInputs :
        /\ timeArg' = a
        /\ label' = formatTime(a)
        /\ step' = "format"
        /\ UNCHANGED sampled
        /\ VolumeUnchanged
        /\ PlayerUnchanged
        /\ PlayerHistoryUnchanged

PointerDown == PointerDownOn(ClientXs, ClientYs, TrackRects)
PointerMove == PointerMoveOn(ClientXs, ClientYs, Buttons, TrackRects)
SomePointerDown == PointerDownOn(SomeClientXs, ClientYs, SomeTrackRects)
SomePointerMove ==
    PointerMoveOn(SomeClientXs, ClientYs, SomeButtons, SomeTrackRects)

Next ==
    \/ handleTogglePlayPause
    \/ ToggleTimeoutFires
    \/ Tick
    \/ Sample
    \/ Unmount
    \/ Advance

\* The player without pointer input: the volume keeps its initial value.
Spec == Init /\ [][Next]_vars

\* The volume track alone, with every pointer event of the input sets: the
\* volume update as a function of the event and the track's bounding box.
NextPointer ==
    \/ PointerDown
    \/ PointerMove

SpecPointer == Init /\ [][NextPointer]_vars

\* The player under the browser's scheduling guarantees: time goes on
\* passing while a timeout waits for its delay, and a timeout whose delay
\* has elapsed has its callback run.
NextLive ==
    \/ (toggleCount < LiveMaxToggles /\ handleTogglePlayPause)
    \/ ToggleTimeoutFires
    \/ Tick
    \/ Sample
    \/ Unmount
    \/ LiveAdvance

SpecLive ==
    /\ Init
    /\ [][NextLive]_vars
    /\ WF_vars(LiveAdvance)
    /\ WF_vars(ToggleTimeoutFires)

\* tick as a function of its timestamp: the player with frame callbacks
\* called on every timestamp of FrameTimes, in any order.
NextTick ==
    \/ (toggleCount < FrameMaxToggles /\ handleTogglePlayPause)
    \/ ToggleTimeoutFires
    \/ FrameAt
    \/ (advances < FrameMaxAdvances /\ Advance)

SpecTick == Init /\ [][NextTick]_vars

\* formatTime alone, on every argument of FormatInputs.
SpecFormat == Init /\ [][Format]_vars

\* The player with pointer input on the volume track.  Pointer events only
\* write volume, so they multiply the states of Spec without changing them;
\* the player's own callbacks are given a smaller budget here, and the
\* pointer events are those of the smaller input sets.
NextVolume ==
    \/ SomePointerDown
    \/ SomePointerMove
    \/ (toggleCount < VolMaxToggles /\ handleTogglePlayPause)
    \/ ToggleTimeoutFires
    \/ Tick
    \/ Sample
    \/ Unmount
    \/ (advances < VolMaxAdvances /\ Advance)

SpecVolume == Init /\ [][NextVolume]_vars

\* ------------------------------------------------------------------ claims
\* The state a toggle request leads to from a settled state, as the
\* specification words it: Playing from Paused, Paused from Playing.
Opposite(state) == IF state = "paused" THEN "playing" ELSE "paused"

\* A step that is a toggle request.
ToggleStep == toggleCount' = toggleCount + 1

\* C1: a toggle request received while playerState = "loading" is a no-op:
\* the state stays loading, the pending delayed transition (its target and
\* its deadline) is untouched and no second delayed transition is scheduled.
C1_ToggleWhileLoadingIsNoOp ==
    [][(ToggleStep /\ playerState = "loading")
        => /\ playerState' = "loading"
           /\ timers' = timers
           /\ toggleTimeoutRef' = toggleTimeoutRef
           /\ nextTimerId' = nextTimerId]_vars

\* A toggle request has just been received while loading, with the first
\* request's transition pending.
C1_Witness ==
    /\ step = "toggle"
    /\ playerState = "loading"
    /\ burstLast > burstFirst
    /\ burstFirst > 0
    /\ \E t \in timers : t.req = burstFirst

\* C2 as stated: when toggle B follows toggle A before A's delay has elapsed,
\* the one delayed transition that fires is B's (last toggle wins).
C2_LastToggleWins ==
    (fired.owner # 0 /\ fired.last # fired.first)
        => (fired.owner = fired.last /\ fired.others = 0)

\* C2 amended: when toggle B follows toggle A before A's delay has elapsed,
\* the delayed transition that fires is A's, scheduled at A's request and
\* setting A's target, and no other delayed transition is pending with it
\* (first toggle wins; B is ignored).
C2_FirstToggleWins ==
    (fired.owner # 0 /\ fired.last # fired.first)
        => /\ fired.owner = fired.first
           /\ fired.others = 0
           /\ fired.to = Opposite(fired.from)

\* A delayed transition has just fired after two or more toggle requests.
C2_Witness ==
    /\ step = "timeout"
    /\ fired.owner # 0
    /\ fired.last > fired.first

\* C3: a toggle request received in paused or playing sets playerState to
\* loading in that very step and leaves exactly one delayed transition
\* pending, due TOGGLE_DELAY_MS later with the opposite of the current state
\* as its target; and a delayed transition that fires on the mounted
\* component fires no earlier than TOGGLE_DELAY_MS after the request, finds
\* the state loading and sets it to the opposite of the state the request
\* found.
C3_ToggleSetsLoadingThenTarget ==
    [][/\ (ToggleStep /\ playerState \in {"paused", "playing"})
            => /\ playerState' = "loading"
               /\ timers' = {[id |-> toggleTimeoutRef',
                              deadline |-> now + TOGGLE_DELAY_MS,
                              target |-> Opposite(playerState),
                              req |-> toggleCount']}
       /\ (step' = "timeout" /\ isMountedRef)
            => /\ playerState = "loading"
               /\ now >= burstAt + TOGGLE_DELAY_MS
               /\ playerState' = Opposite(burstFrom)]_vars

\* A delayed transition has just paused a player that was playing.
C3_Witness ==
    /\ step = "timeout"
    /\ fired.from = "playing"
    /\ playerState = "paused"

\* C4: in every reachable state at most one delayed toggle transition is
\* pending.
C4_AtMostOnePending == Cardinality(timers) <= 1

\* After an earlier transition has fired, one transition is pending and a
\* further toggle request has arrived while it is.
C4_Witness ==
    /\ Cardinality(timers) = 1
    /\ fired.owner # 0
    /\ burstLast > burstFirst
    /\ burstFirst > 0

\* C5: after a teardown with a delayed toggle transition pending,
\* playerState is loading ever after, and so never that transition's target.
C5_TeardownWhilePendingStaysLoading ==
    tornDown.target # "none"
        => (playerState = "loading" /\ playerState # tornDown.target)

\* The component was torn down with a transition pending, and time has
\* since passed beyond that transition's deadline.
C5_Witness ==
    /\ tornDown.target # "none"
    /\ ~isMountedRef
    /\ step = "advance"
    /\ now >= tornDown.deadline

\* C6: from the teardown on, no delayed toggle, animation frame or sampler is
\* pending, and playerState, progress, artworkRotation and currentSeconds
\* never change again.
C6_TeardownCancelsAll ==
    /\ [](~isMountedRef => (timers = {} /\ ~rafPending /\ ~intervalActive))
    /\ [][~isMountedRef' => UNCHANGED <<playerState, progress,
                                        artworkRotation, currentSeconds>>]_vars

\* The component was torn down while playing, and since then enough time has
\* passed for the sampler to have been due.
C6_Witness ==
    /\ ~isMountedRef
    /\ playerState = "playing"
    /\ runTicked
    /\ step = "advance"
    /\ now >= sampleDue

\* C7: a step taken while playerState is paused or loading leaves progress
\* and artworkRotation unchanged.
C7_AdvanceOnlyWhilePlaying ==
    [][playerState # "playing"
        => UNCHANGED <<progress, artworkRotation>>]_vars

\* Playback has advanced the progress, the player is paused again, and time
\* passes.
C7_Witness ==
    /\ playerState = "paused"
    /\ isMountedRef
    /\ progress # InitialProgress
    /\ step = "advance"

\* C8: in every reachable state progress is in [0, 1) and artworkRotation is
\* in [0, 360).
C8_Ranges ==
    /\ 0 <= progress
    /\ progress < ProgressDen
    /\ 0 <= artworkRotation
    /\ artworkRotation < FULL_TURN_DEG * RotationDen

\* A tick has just wrapped the progress past 1, the rotation having turned
\* at least once.
C8_Witness ==
    /\ step = "tick"
    /\ progress < progressBefore
    /\ tickedMs >= ROTATION_PERIOD_MS

\* C9: progress and artworkRotation have advanced, from their initial
\* values, by exactly the clock time that passed between consecutive ticks
\* of a same Playing run (the first tick of a run counting for nothing), and
\* ticks run only while playing: time spent paused or loading is never
\* added.
C9_NoCatchUp ==
    /\ progress
         = (InitialProgress
              + tickedMs * (ProgressDen \div PROGRESS_DURATION_MS))
           % ProgressDen
    /\ artworkRotation
         = (tickedMs * ((FULL_TURN_DEG * RotationDen) \div ROTATION_PERIOD_MS))
           % (FULL_TURN_DEG * RotationDen)
    /\ step = "tick" => playerState = "playing"

\* Playing was left and re-entered, and the first tick of the new run has
\* just run, after an earlier run that advanced the progress.
C9_Witness ==
    /\ step = "tick"
    /\ playerState = "playing"
    /\ fired.owner >= 3
    /\ tickedMs > 0
    /\ lastElapsed = 0
    /\ now > tickedMs

\* C10: after a tick, progress is (old + elapsed / 225000) mod 1, elapsed
\* being the clock time since the previous tick of the same run.
C10_ProgressUpdate ==
    step = "tick"
        => progress
             = (progressBefore
                  + lastElapsed * (ProgressDen \div PROGRESS_DURATION_MS))
               % ProgressDen

\* A tick with elapsed > 0 has just wrapped the progress.
C10_Witness ==
    /\ step = "tick"
    /\ lastElapsed > 0
    /\ progress < progressBefore
    /\ progressBefore > InitialProgress

\* C11: after a tick, artworkRotation is (old + elapsed * 360 / 20000) mod
\* 360, elapsed being the clock time since the previous tick of the same run.
C11_RotationUpdate ==
    step = "tick"
        => artworkRotation
             = (rotationBefore
                  + lastElapsed
                      * ((FULL_TURN_DEG * RotationDen) \div ROTATION_PERIOD_MS))
               % (FULL_TURN_DEG * RotationDen)

\* A tick with elapsed > 0 has just wrapped the rotation past 360, from a
\* rotation an earlier tick had advanced.
C11_Witness ==
    /\ step = "tick"
    /\ lastElapsed > 0
    /\ rotationBefore > 0
    /\ artworkRotation < rotationBefore

\* The last pointer event was one that updates the volume: a pointer-down,
\* or a pointer-move with the primary button held.
VolumeUpdated ==
    \/ step = "pointerdown"
    \/ step = "pointermove" /\ pointer.buttons % 2 = 1

\* The fraction of a track of width > 0 that clientX marks, as the
\* specification words it: 0 at or left of the left edge, 1 at or right of
\* the right edge, linear in between.
TrackFraction(clientX, left, width) ==
    IF clientX <= left THEN 0
    ELSE IF clientX >= left + width THEN VolumeDen
    ELSE ((clientX - left) * VolumeDen) \div width

\* C12 as stated: in every reachable state volume is a number in [0, 1],
\* whatever the pointer coordinate and the track's bounding box, a track of
\* width 0 included.
C12_VolumeInUnitInterval ==
    /\ volume.kind = "num"
    /\ 0 <= volume.n
    /\ volume.n <= VolumeDen

\* C13: a volume update on a track of width > 0 sets volume to 0 when
\* clientX <= left, to 1 when clientX >= left + width, and to
\* (clientX - left) / width in between.
C13_VolumeFromPointer ==
    (VolumeUpdated /\ pointer.width > 0)
        => volume = Num(TrackFraction(pointer.x, pointer.left, pointer.width))

\* A pointer-move with the primary button held has just set the volume to a
\* fraction strictly inside (0, 1).
C13_Witness ==
    /\ step = "pointermove"
    /\ pointer.buttons % 2 = 1
    /\ pointer.width > 0
    /\ pointer.x > pointer.left
    /\ pointer.x < pointer.left + pointer.width
    /\ volume.kind = "num"
    /\ volume.n > 0
    /\ volume.n < VolumeDen

\* C14: volume changes only in a pointer-down or in a pointer-move with the
\* primary button held (so not in a pointer-move without it, a toggle
\* request, a tick, a sampler firing, a delayed transition, a teardown or a
\* passage of time), and the volume such a step sets is a function of
\* clientX and the track's bounding box alone, whatever clientY is.
C14_VolumeFrame ==
    [][/\ volume' # volume
            => \/ step' = "pointerdown"
               \/ step' = "pointermove" /\ pointer'.buttons % 2 = 1
       /\ (\/ step' = "pointerdown"
           \/ step' = "pointermove" /\ pointer'.buttons % 2 = 1)
            => volume' = Num(TrackFraction(pointer'.x, pointer'.left,
                                           pointer'.width))]_vars

\* While the player is playing, after the volume was changed, a pointer-move
\* without the primary button has just left the volume as it was.
C14_Witness ==
    /\ step = "pointermove"
    /\ pointer.buttons % 2 = 0
    /\ pointer.y # 0
    /\ volume # Num(InitialVolume)
    /\ volume # Num(TrackFraction(pointer.x, pointer.left, pointer.width))
    /\ playerState = "playing"
    /\ runTicked

\* minutes:seconds of max(0, floor(s)) as the specification words it, the
\* seconds written digit by digit: tens, then units.
MinutesSeconds(arg) ==
    LET whole == IF arg < 0 THEN 0 ELSE arg \div SecondsDen
    IN  ToString(whole \div 60) \o ":" \o ToString((whole % 60) \div 10)
            \o ToString((whole % 60) % 10)

\* C15: formatTime(s) is minutes:seconds of max(0, floor(s)), the minutes
\* unpadded and the seconds zero-padded to two digits; formatTime(83) =
\* "1:23", formatTime(83.9) = "1:23", formatTime(0) = "0:00",
\* formatTime(-5) = "0:00" and formatTime(225) = "3:45".
C15_FormatTime ==
    step = "format"
        => /\ label = MinutesSeconds(timeArg)
           /\ timeArg = 83 * SecondsDen => label = "1:23"
           /\ timeArg = 83 * SecondsDen + 9 * (SecondsDen \div 10)
                => label = "1:23"
           /\ timeArg = 0 => label = "0:00"
           /\ timeArg = (-5) * SecondsDen => label = "0:00"
           /\ timeArg = 225 * SecondsDen => label = "3:45"

\* formatTime has just been applied to 83.9 s.
C15_Witness ==
    /\ step = "format"
    /\ timeArg = 83 * SecondsDen + 9 * (SecondsDen \div 10)
    /\ label = "1:23"

\* C16 as stated: while the component is mounted, currentSeconds is
\* progress * 225 as it was at some instant no more than 250 ms earlier (it
\* is the present value, or the progress has differed from it for 250 ms at
\* most), and it is behind the progress by at most 250 ms of playback.
C16_LagAtMostOneInterval ==
    isMountedRef
        => /\ \/ sampled.staleSince = -1
              \/ now - sampled.staleSince <= SAMPLE_INTERVAL_MS
           /\ (progress - sampled.progress) % ProgressDen
                <= SAMPLE_INTERVAL_MS * (ProgressDen \div PROGRESS_DURATION_MS)

\* C16 amended: while the component is mounted, currentSeconds is
\* progress * 225 as it was when the sampler last fired (at mount: the
\* initial value), and the sampler is next due 250 ms after that instant;
\* so as long as the sampler is not overdue, currentSeconds is
\* progress * 225 as it was at some instant no more than 250 ms earlier.
C16_SampledCopy ==
    isMountedRef
        => /\ currentSeconds
                = sampled.progress * ((TotalSeconds * SecondsDen) \div ProgressDen)
           /\ sampleDue = sampled.at + SAMPLE_INTERVAL_MS
           /\ now <= sampleDue
                => \/ sampled.staleSince = -1
                   \/ now - sampled.staleSince <= SAMPLE_INTERVAL_MS

\* The sampler has fired during playback, a tick has since advanced the
\* progress, and the sampler is due again just now.
C16_Witness ==
    /\ isMountedRef
    /\ step = "advance"
    /\ sampled.at > 0
    /\ sampled.staleSince >= sampled.at
    /\ progress # sampled.progress
    /\ now = sampleDue

\* C17: the label sampler is scheduled for as long as the component is
\* mounted, whatever playerState is; a toggle request, a delayed transition
\* and a tick (so every entry to and exit from playing) leave it scheduled
\* and its next due time as it was; and each firing sets currentSeconds to
\* the current progress * 225.
C17_SamplerLifetime ==
    /\ [](isMountedRef => intervalActive)
    /\ [][/\ step' \in {"toggle", "timeout", "tick"}
               => UNCHANGED <<intervalActive, sampleDue>>
          /\ step' = "sample"
               => currentSeconds'
                    = progress
                        * (TotalSeconds \div (ProgressDen \div SecondsDen))]_vars

\* The sampler has just fired during playback, after a tick advanced the
\* progress, and copied it.
C17_Witness ==
    /\ step = "sample"
    /\ playerState = "playing"
    /\ progress # InitialProgress
    /\ sampled.progress = progress
    /\ sampled.at > 0

\* C18: whenever playerState is loading on the mounted component, it
\* eventually is playing or paused, unless the component is torn down first:
\* loading never lasts forever while mounted.
C18_LoadingIsTransient ==
    (playerState = "loading" /\ isMountedRef)
        ~> (playerState \in {"playing", "paused"} \/ ~isMountedRef)

\* A delayed transition has just ended a loading state in which a further
\* toggle request was received.
C18_Witness ==
    /\ step = "timeout"
    /\ isMountedRef
    /\ playerState \in {"playing", "paused"}
    /\ fired.last > fired.first
    /\ now >= fired.at + TOGGLE_DELAY_MS

\* C19: at mount playerState is paused, progress is 0.3688889, the artwork
\* rotation is 0, the volume is 0.65, currentSeconds is 0.3688889 * 225 and
\* its label reads "1:23"; no delayed transition is pending and no animation
\* tick is scheduled.
C19_InitialState ==
    step = "mount" =>
        /\ playerState = "paused"
        /\ progress = 3688889 * (ProgressDen \div 10000000)
        /\ artworkRotation = 0
        /\ volume.kind = "num"
        /\ volume.n * 100 = 65 * VolumeDen
        /\ currentSeconds * (10000000 \div SecondsDen) = 3688889 * TotalSeconds
        /\ label = "1:23"
        /\ timers = {}
        /\ toggleTimeoutRef = 0
        /\ ~rafPending
        /\ lastFrameRef = Null

\* The component has just been mounted: its effects have run and no callback
\* has been called yet.
C19_Witness ==
    /\ step = "mount"
    /\ isMountedRef
    /\ intervalActive
    /\ now = 0
    /\ toggleCount = 0
    /\ advances = 0

\* C20: once playerState has left playing, or the component is torn down
\* while playing, no animation tick is scheduled and the last-tick timestamp
\* lastFrameRef is empty; in every state with playerState other than playing
\* lastFrameRef is empty.
C20_LeavingPlayingResets ==
    /\ playerState # "playing" => (~rafPending /\ lastFrameRef = Null)
    /\ (~isMountedRef /\ playerState = "playing")
           => (~rafPending /\ lastFrameRef = Null)

\* C21: a frame callback is pending only while playerState is playing on the
\* mounted component: exactly one is pending in every playing state (each
\* tick requests one frame for the one that ran), and none is pending while
\* paused, while loading or after the unmount.
C21_OneFrameWhilePlaying ==
    /\ rafQueue = (IF playerState = "playing" /\ isMountedRef THEN 1 ELSE 0)
    /\ rafPending <=> (playerState = "playing" /\ isMountedRef)

\* A tick of a playing run has run after an earlier tick of the same run and
\* has requested the next frame.
C21_Witness ==
    /\ step = "tick"
    /\ playerState = "playing"
    /\ isMountedRef
    /\ rafQueue = 1
    /\ lastElapsed > 0

\* C22: on the mounted component playerState is loading exactly when a
\* delayed transition is pending (none is pending while paused or playing),
\* and playerState leaves loading only by the firing of the delayed
\* transition.
C22_LoadingIffPending ==
    /\ [](isMountedRef => (playerState = "loading" <=> timers # {}))
    /\ [][(playerState = "loading" /\ playerState' # "loading")
              => (step' = "timeout" /\ timers # {} /\ timers' = {})]_vars

\* The delayed transition of a pause request has just fired on the mounted
\* component: loading has ended and nothing is pending any more.
C22_Witness ==
    /\ step = "timeout"
    /\ isMountedRef
    /\ fired.from = "playing"
    /\ playerState = "paused"
    /\ timers = {}

\* C23: playerState changes only from paused or playing to loading, by a
\* toggle request, and from loading to paused or playing, by the delayed
\* transition; it never steps directly between paused and playing, and the
\* settled states alternate: the first is paused, and the state a loading
\* period ends in is the opposite of the one it began from.
C23_TransitionsAlternate ==
    /\ [](step = "mount" => playerState = "paused")
    /\ [][playerState' # playerState =>
            \/ /\ playerState \in {"paused", "playing"}
               /\ playerState' = "loading"
               /\ step' = "toggle"
               /\ burstFrom' = playerState
            \/ /\ playerState = "loading"
               /\ playerState' \in {"paused", "playing"}
               /\ step' = "timeout"
               /\ playerState' = Opposite(burstFrom)]_vars

\* The third settled state has been reached: paused, then playing, then
\* paused again, each through its own loading period.
C23_Witness ==
    /\ step = "timeout"
    /\ playerState = "paused"
    /\ fired.from = "playing"
    /\ fired.owner = 2
    /\ toggleCount = 2

\* C24: a toggle request and the firing of a delayed transition leave
\* progress and artworkRotation as they were, and a volume update leaves
\* playerState, progress, artworkRotation, currentSeconds and the pending
\* delayed transition as they were.
C24_ToggleAndVolumeFrames ==
    [][/\ step' \in {"toggle", "timeout"}
            => UNCHANGED <<progress, artworkRotation>>
       /\ (step' \in {"pointerdown", "pointermove"} \/ volume' # volume)
            => UNCHANGED <<playerState, progress, artworkRotation,
                           currentSeconds, label, timers,
                           toggleTimeoutRef>>]_vars

\* After playback has moved the progress, a pause request has set loading,
\* and a pointer-down has then set the volume while the delayed transition
\* is pending.
C24_Witness ==
    /\ step = "pointerdown"
    /\ playerState = "loading"
    /\ burstFrom = "playing"
    /\ timers # {}
    /\ progress # InitialProgress
    /\ artworkRotation # 0

\* C25: a tick whose timestamp is earlier than the stored lastFrameRef counts
\* as zero elapsed time: it leaves progress and artworkRotation as they were
\* and still stores its timestamp; so a tick lowers progress or
\* artworkRotation only by wrapping at 1 or at 360 degrees, after a positive
\* elapsed time.
C25_EarlierTimestampIsZero ==
    [][step' = "tick" =>
        /\ lastFrameRef' = <<frameTime'>>
        /\ (lastFrameRef # Null /\ frameTime' < lastFrameRef[1])
            => UNCHANGED <<progress, artworkRotation>>
        /\ progress' < progress
            => /\ lastFrameRef # Null
               /\ frameTime' > lastFrameRef[1]
               /\ progress' = progress - ProgressDen
                    + (frameTime' - lastFrameRef[1])
                        * (ProgressDen \div PROGRESS_DURATION_MS)
        /\ artworkRotation' < artworkRotation
            => /\ lastFrameRef # Null
               /\ frameTime' > lastFrameRef[1]
               /\ (artworkRotation' - artworkRotation) % (FULL_TURN_DEG * RotationDen)
                    = ((frameTime' - lastFrameRef[1])
                        * ((FULL_TURN_DEG * RotationDen) \div ROTATION_PERIOD_MS))
                            % (FULL_TURN_DEG * RotationDen)]_vars

\* In the one playing run so far, after ticks that moved and wrapped the
\* progress, a tick with timestamp 0 has run: earlier than the stored
\* timestamp, it has changed neither value and has stored 0.
C25_Witness ==
    /\ step = "tick"
    /\ toggleCount = 1
    /\ frameTime = 0
    /\ lastFrameRef = <<0>>
    /\ progressBefore < InitialProgress
    /\ progress = progressBefore
    /\ artworkRotation = rotationBefore
    /\ rotationBefore > 0

=============================================================================
